---- MODULE Spec2Model ----
(***************************************************************************)
(* The ZMQ consensus-engine driver of src/consensus/zmq_driver.rs:         *)
(* ZmqDriver::start (registration, activation wait, spawn, engine, join),  *)
(* driver_loop with handle_update and send_ping_reply, and Stop::stop,     *)
(* together with the validator, the transport and the engine as the        *)
(* environment.                                                            *)
(***************************************************************************)
EXTENDS Integers, Sequences, FiniteSets, TLC

\* ------------------------------------------------------------------ bounds

\* Inbound messages the validator delivers to the receiver in one run.
MaxMsgs == 2
\* Messages waiting in the receiver at any time.
MaxQueue == 2
\* Calls of Stop::stop in one run.
MaxStops == 2
\* NOT_READY registration responses in one run of ZmqDriver::start.
MaxNotReadyStart == 1
\* NOT_READY registration responses in one run of register on its own.
MaxNotReady == 7

\* ------------------------------------------------------- program constants

\* INITAL_RETRY_DELAY and MAX_RETRY_DELAY, in milliseconds.
INITAL_RETRY_DELAY == 100
MAX_RETRY_DELAY == 3000

\* ------------------------------------------------------------------ state

VARIABLES
    main_pc,        \* position of the thread that called ZmqDriver::start
    start_result,   \* what start returned: "none" until it returns
    startup_src,    \* where the StartupState came from
    retry_delay,    \* register's local retry_delay (ms)
    reg_ids,        \* correlation ids of the requests register has sent
    sleeps,         \* durations of register's thread::sleep calls (ms)
    reg_replies,    \* outcomes register got for its requests, in order
    reg_ret,        \* what register returned: "none" until it returns
    inbox,          \* validator_receiver: items waiting to be received
    vseq,           \* number of items the validator has delivered
    conn,           \* "open", or "closed" once the receiver's sender is gone
    transport_ok,   \* FALSE once the transport's send path fails
    skipped,        \* messages wait_until_active consumed and ignored
    loop_pc,        \* position of the driver_loop thread
    loop_result,    \* what driver_loop returned: "none" until it returns
    cur,            \* the message driver_loop is handling
    received,       \* messages driver_loop took from the receiver, in order
    updates,        \* the event channel: Updates queued for the engine
    update_rx_open, \* FALSE once the engine has dropped update_receiver
    emitted,        \* every Update successfully sent on the event channel
    replies,        \* every reply sent on the transport, in order
    stop_pending,   \* stop signals queued on the stop channel
    stop_calls,     \* calls of Stop::stop made so far
    stop_observed,  \* TRUE once driver_loop consumed a stop signal
    late_msg,       \* TRUE once an item was delivered after a Stop::stop
    joined          \* TRUE once start joined the loop thread

vars == <<main_pc, start_result, startup_src, retry_delay, reg_ids, sleeps,
          reg_replies, reg_ret, inbox, vseq, conn, transport_ok, late_msg, skipped,
          loop_pc, loop_result, cur, received, updates, update_rx_open,
          emitted, replies, stop_pending, stop_calls, stop_observed, joined>>

mainVars == <<main_pc, start_result, startup_src, joined>>
regVars == <<retry_delay, reg_ids, sleeps, reg_replies, reg_ret>>
envVars == <<vseq, conn, transport_ok, late_msg>>
loopVars == <<loop_pc, loop_result, cur, received>>
chanVars == <<updates, update_rx_open, emitted>>
stopVars == <<stop_pending, stop_calls, stop_observed>>

\* ---------------------------------------------------------- message types

\* Notifications handle_update decodes and translates.
NotifyTypes ==
    {"PEER_CONNECTED", "PEER_DISCONNECTED", "PEER_MESSAGE", "BLOCK_NEW",
     "BLOCK_VALID", "BLOCK_INVALID", "BLOCK_COMMIT"}

\* Every message type handle_update turns into an Update.
TranslatableTypes == NotifyTypes \cup {"ENGINE_DEACTIVATED"}

\* Mutant: the arms for block-valid and block-invalid build each other's
\* variant.
UpdateOf_Swapped(t) ==
    CASE t = "PEER_CONNECTED" -> "PeerConnected"
      [] t = "PEER_DISCONNECTED" -> "PeerDisconnected"
      [] t = "PEER_MESSAGE" -> "PeerMessage"
      [] t = "BLOCK_NEW" -> "BlockNew"
      [] t = "BLOCK_VALID" -> "BlockInvalid"
      [] t = "BLOCK_INVALID" -> "BlockValid"
      [] t = "BLOCK_COMMIT" -> "BlockCommit"
      [] t = "ENGINE_DEACTIVATED" -> "Shutdown"
      [] OTHER -> "none"

\* The Update variant handle_update builds for a message type.
UpdateOf(t) ==
    CASE t = "PEER_CONNECTED" -> "PeerConnected"
      [] t = "PEER_DISCONNECTED" -> "PeerDisconnected"
      [] t = "PEER_MESSAGE" -> "PeerMessage"
      [] t = "BLOCK_NEW" -> "BlockNew"
      [] t = "BLOCK_VALID" -> "BlockValid"
      [] t = "BLOCK_INVALID" -> "BlockInvalid"
      [] t = "BLOCK_COMMIT" -> "BlockCommit"
      [] t = "ENGINE_DEACTIVATED" -> "Shutdown"
      [] OTHER -> "none"

NoMsg == [type |-> "none", corr |-> 0, valid |-> TRUE]

\* The Error variants, with the message where one variant has several uses.
ReceiveErrors ==
    {"ReceiveError.Disconnected", "ReceiveError.Unexpected",
     "ReceiveError.Timeout", "ReceiveError.UnexpectedType",
     "ReceiveError.RegistrationFailed"}

\* ----------------------------------------------------------------- Init

\* ZmqDriver::new: the driver and its Stop handle exist, start is not called.
Init ==
    /\ main_pc = "new"
    /\ start_result = "none"
    /\ startup_src = "none"
    /\ retry_delay = 0
    /\ reg_ids = <<>>
    /\ sleeps = <<>>
    /\ reg_replies = <<>>
    /\ reg_ret = "none"
    /\ inbox = <<>>
    /\ vseq = 0
    /\ conn = "open"
    /\ transport_ok = TRUE
    /\ skipped = <<>>
    /\ loop_pc = "unspawned"
    /\ loop_result = "none"
    /\ cur = NoMsg
    /\ received = <<>>
    /\ updates = <<>>
    /\ update_rx_open = TRUE
    /\ emitted = <<>>
    /\ replies = <<>>
    /\ stop_pending = 0
    /\ stop_calls = 0
    /\ stop_observed = FALSE
    /\ late_msg = FALSE
    /\ joined = FALSE

\* -------------------------------------------------------------- helpers

\* The histories keep at most LogCap entries; a run of Spec never fills one.
LogCap == MaxMsgs + 1

\* Append x to the history h.
Log(h, x) == IF Len(h) < LogCap THEN Append(h, x) ELSE h

\* The stop channel's receiver lives in the ZmqDriver: start drops it when it
\* returns before spawning the loop, the loop thread when driver_loop returns.
StopReceiverAlive ==
    ~(loop_pc = "done" \/ (main_pc = "returned" /\ loop_pc = "unspawned"))

\* ZmqDriver::start returns res to its caller.
StartReturns(res) ==
    /\ main_pc' = "returned"
    /\ start_result' = res

\* ------------------------------------------------------------- register

\* register returns the error err, and the `?` of line 88 returns it from
\* start.
RegisterFails(err) ==
    /\ reg_ret' = err
    /\ StartReturns(err)

\* Correlation ids generate_correlation_id can produce: one random
\* alphanumeric character ([0..LENGTH] is an array of one range).
CorrIds == {"a", "b"}

\* What the pending registration request can yield: a get_timeout error or a
\* reply message.
RegReplies ==
    {[type |-> "TIMEOUT", status |-> "none", chain_head |-> FALSE,
      local_peer_info |-> FALSE, valid |-> TRUE],
     [type |-> "PING_REQUEST", status |-> "none", chain_head |-> FALSE,
      local_peer_info |-> FALSE, valid |-> TRUE],
     [type |-> "CONSENSUS_REGISTER_RESPONSE", status |-> "OK",
      chain_head |-> FALSE, local_peer_info |-> FALSE, valid |-> FALSE],
     [type |-> "CONSENSUS_REGISTER_RESPONSE", status |-> "NOT_READY",
      chain_head |-> FALSE, local_peer_info |-> FALSE, valid |-> TRUE],
     [type |-> "CONSENSUS_REGISTER_RESPONSE", status |-> "BAD_REQUEST",
      chain_head |-> FALSE, local_peer_info |-> FALSE, valid |-> TRUE]}
    \cup
    {[type |-> "CONSENSUS_REGISTER_RESPONSE", status |-> "OK",
      chain_head |-> ch, local_peer_info |-> pi, valid |-> TRUE] :
        ch \in BOOLEAN, pi \in BOOLEAN}

\* Mutant: the delay doubles without the cap.
NextRetryDelay_NoCap(d) == d * 2

\* retry_delay after one NOT_READY response (lines 224-229).
NextRetryDelay(d) ==
    IF d < MAX_RETRY_DELAY
    THEN IF d * 2 > MAX_RETRY_DELAY THEN MAX_RETRY_DELAY ELSE d * 2
    ELSE d

\* ZmqDriver::start is called: the connection is created and register builds
\* its request and sets retry_delay.
Start ==
    /\ main_pc = "new"
    /\ main_pc' = "reg_send"
    /\ retry_delay' = INITAL_RETRY_DELAY
    /\ UNCHANGED <<start_result, startup_src, joined, reg_ids, sleeps,
                   reg_replies, reg_ret, inbox, skipped, replies>>
    /\ UNCHANGED <<envVars, loopVars, chanVars, stopVars>>

\* register sends a registration request under a fresh correlation id: the
\* first one (line 183) and each retry (line 230).
RegisterSend ==
    /\ main_pc = "reg_send"
    /\ \E id \in CorrIds :
        IF transport_ok
        THEN /\ reg_ids' = Append(reg_ids, id)
             /\ main_pc' = "reg_wait"
             /\ UNCHANGED <<start_result, reg_ret>>
        ELSE /\ RegisterFails("SendError")
             /\ UNCHANGED reg_ids
    /\ UNCHANGED <<startup_src, joined, retry_delay, sleeps, reg_replies,
                   inbox, skipped, replies>>
    /\ UNCHANGED <<envVars, loopVars, chanVars, stopVars>>

\* Mutant: an OK response with either a chain head or local peer info
\* yields Some.
RegisterReply_EitherField(limit) ==
    /\ main_pc = "reg_wait"
    /\ \E r \in RegReplies :
        /\ r.status = "NOT_READY" => Len(sleeps) < limit
        /\ reg_replies' = Append(reg_replies, r)
        /\ CASE r.type = "TIMEOUT" ->
                  /\ RegisterFails("ReceiveError.Timeout")
                  /\ UNCHANGED <<retry_delay, sleeps>>
             [] r.type = "PING_REQUEST" ->
                  /\ RegisterFails("ReceiveError.UnexpectedType")
                  /\ UNCHANGED <<retry_delay, sleeps>>
             [] r.type = "CONSENSUS_REGISTER_RESPONSE" /\ ~r.valid ->
                  /\ RegisterFails("EncodingError")
                  /\ UNCHANGED <<retry_delay, sleeps>>
             [] r.type = "CONSENSUS_REGISTER_RESPONSE" /\ r.valid
                  /\ r.status = "OK" ->
                  /\ reg_ret' = IF r.chain_head \/ r.local_peer_info
                                THEN "Some" ELSE "None"
                  /\ main_pc' = "registered"
                  /\ UNCHANGED <<start_result, retry_delay, sleeps>>
             [] r.type = "CONSENSUS_REGISTER_RESPONSE" /\ r.valid
                  /\ r.status = "NOT_READY" ->
                  /\ sleeps' = Append(sleeps, retry_delay)
                  /\ retry_delay' = NextRetryDelay(retry_delay)
                  /\ main_pc' = "reg_send"
                  /\ UNCHANGED <<start_result, reg_ret>>
             [] OTHER ->
                  /\ RegisterFails("ReceiveError.RegistrationFailed")
                  /\ UNCHANGED <<retry_delay, sleeps>>
    /\ UNCHANGED <<startup_src, joined, reg_ids, inbox, skipped, replies>>
    /\ UNCHANGED <<envVars, loopVars, chanVars, stopVars>>

\* Mutant: a response whose status is neither OK nor NOT_READY makes
\* register send its request again.
RegisterReply_RetryOnError(limit) ==
    /\ main_pc = "reg_wait"
    /\ \E r \in RegReplies :
        /\ r.status = "NOT_READY" => Len(sleeps) < limit
        /\ reg_replies' = Append(reg_replies, r)
        /\ CASE r.type = "TIMEOUT" ->
                  /\ RegisterFails("ReceiveError.Timeout")
                  /\ UNCHANGED <<retry_delay, sleeps>>
             [] r.type = "PING_REQUEST" ->
                  /\ RegisterFails("ReceiveError.UnexpectedType")
                  /\ UNCHANGED <<retry_delay, sleeps>>
             [] r.type = "CONSENSUS_REGISTER_RESPONSE" /\ ~r.valid ->
                  /\ RegisterFails("EncodingError")
                  /\ UNCHANGED <<retry_delay, sleeps>>
             [] r.type = "CONSENSUS_REGISTER_RESPONSE" /\ r.valid
                  /\ r.status = "OK" ->
                  /\ reg_ret' = IF r.chain_head /\ r.local_peer_info
                                THEN "Some" ELSE "None"
                  /\ main_pc' = "registered"
                  /\ UNCHANGED <<start_result, retry_delay, sleeps>>
             [] r.type = "CONSENSUS_REGISTER_RESPONSE" /\ r.valid
                  /\ r.status = "NOT_READY" ->
                  /\ sleeps' = Append(sleeps, retry_delay)
                  /\ retry_delay' = NextRetryDelay(retry_delay)
                  /\ main_pc' = "reg_send"
                  /\ UNCHANGED <<start_result, reg_ret>>
             [] OTHER ->
                  /\ main_pc' = "reg_send"
                  /\ UNCHANGED <<start_result, reg_ret, retry_delay, sleeps>>
    /\ UNCHANGED <<startup_src, joined, reg_ids, inbox, skipped, replies>>
    /\ UNCHANGED <<envVars, loopVars, chanVars, stopVars>>

\* register gets the outcome r of the pending request and matches on it
\* (lines 189 and 197-259); at most limit NOT_READY responses arrive.
RegisterReply(limit) ==
    /\ main_pc = "reg_wait"
    /\ \E r \in RegReplies :
        /\ r.status = "NOT_READY" => Len(sleeps) < limit
        /\ reg_replies' = Append(reg_replies, r)
        /\ CASE r.type = "TIMEOUT" ->
                  /\ RegisterFails("ReceiveError.Timeout")
                  /\ UNCHANGED <<retry_delay, sleeps>>
             [] r.type = "PING_REQUEST" ->
                  /\ RegisterFails("ReceiveError.UnexpectedType")
                  /\ UNCHANGED <<retry_delay, sleeps>>
             [] r.type = "CONSENSUS_REGISTER_RESPONSE" /\ ~r.valid ->
                  /\ RegisterFails("EncodingError")
                  /\ UNCHANGED <<retry_delay, sleeps>>
             [] r.type = "CONSENSUS_REGISTER_RESPONSE" /\ r.valid
                  /\ r.status = "OK" ->
                  /\ reg_ret' = IF r.chain_head /\ r.local_peer_info
                                THEN "Some" ELSE "None"
                  /\ main_pc' = "registered"
                  /\ UNCHANGED <<start_result, retry_delay, sleeps>>
             [] r.type = "CONSENSUS_REGISTER_RESPONSE" /\ r.valid
                  /\ r.status = "NOT_READY" ->
                  /\ sleeps' = Append(sleeps, retry_delay)
                  /\ retry_delay' = NextRetryDelay(retry_delay)
                  /\ main_pc' = "reg_send"
                  /\ UNCHANGED <<start_result, reg_ret>>
             [] OTHER ->
                  /\ RegisterFails("ReceiveError.RegistrationFailed")
                  /\ UNCHANGED <<retry_delay, sleeps>>
    /\ UNCHANGED <<startup_src, joined, reg_ids, inbox, skipped, replies>>
    /\ UNCHANGED <<envVars, loopVars, chanVars, stopVars>>

\* Mutant: start runs wait_until_active after register whatever register
\* returned.
Registered_AlwaysWait ==
    /\ main_pc = "registered"
    /\ main_pc' = "wait_active"
    /\ IF reg_ret = "Some"
       THEN startup_src' = "registration"
       ELSE UNCHANGED startup_src
    /\ retry_delay' = 0
    /\ reg_ids' = <<>>
    /\ sleeps' = <<>>
    /\ reg_replies' = <<>>
    /\ UNCHANGED <<start_result, joined, reg_ret, inbox, skipped, replies>>
    /\ UNCHANGED <<envVars, loopVars, chanVars, stopVars>>

\* start matches on register's result (lines 82-91): Some(state) is the
\* startup state, None sends start into wait_until_active.  register's frame
\* is gone: its requests and sleeps are those of the call that just ended.
Registered ==
    /\ main_pc = "registered"
    /\ IF reg_ret = "Some"
       THEN main_pc' = "spawn" /\ startup_src' = "registration"
       ELSE main_pc' = "wait_active" /\ UNCHANGED startup_src
    /\ retry_delay' = 0
    /\ reg_ids' = <<>>
    /\ sleeps' = <<>>
    /\ reg_replies' = <<>>
    /\ UNCHANGED <<start_result, joined, reg_ret, inbox, skipped, replies>>
    /\ UNCHANGED <<envVars, loopVars, chanVars, stopVars>>

\* ---------------------------------------------------- wait_until_active

\* Mutant: wait_until_active answers a liveness probe as driver_loop does.
WaitRecv_AnswerPing ==
    /\ main_pc = "wait_active"
    /\ inbox # <<>>
    /\ inbox' = Tail(inbox)
    /\ LET msg == Head(inbox) IN
        CASE msg.type = "RECV_ERROR" ->
               /\ StartReturns("ReceiveError.Unexpected")
               /\ UNCHANGED <<startup_src, skipped, replies>>
          [] msg.type = "ENGINE_ACTIVATED" /\ ~msg.valid ->
               /\ StartReturns("EncodingError")
               /\ UNCHANGED <<startup_src, skipped, replies>>
          [] msg.type = "ENGINE_ACTIVATED" /\ msg.valid /\ ~transport_ok ->
               /\ StartReturns("SendError")
               /\ UNCHANGED <<startup_src, skipped, replies>>
          [] msg.type = "ENGINE_ACTIVATED" /\ msg.valid /\ transport_ok ->
               /\ replies' = Log(replies, [type |-> "CONSENSUS_NOTIFY_ACK",
                                           corr |-> msg.corr])
               /\ startup_src' = "activation"
               /\ main_pc' = "spawn"
               /\ UNCHANGED <<start_result, skipped>>
          [] msg.type = "PING_REQUEST" /\ transport_ok ->
               /\ replies' = Log(replies, [type |-> "PING_RESPONSE",
                                           corr |-> msg.corr])
               /\ skipped' = Log(skipped, msg)
               /\ UNCHANGED <<main_pc, start_result, startup_src>>
          [] OTHER ->
               /\ skipped' = Log(skipped, msg)
               /\ UNCHANGED <<main_pc, start_result, startup_src, replies>>
    /\ UNCHANGED <<joined, regVars, envVars, loopVars, chanVars, stopVars>>

\* wait_until_active takes the next item of the receiver (lines 273-309): a
\* receive error aborts, an engine-activated notification is decoded and
\* acknowledged, any other message is dropped.  A timeout changes nothing.
WaitRecv ==
    /\ main_pc = "wait_active"
    /\ inbox # <<>>
    /\ inbox' = Tail(inbox)
    /\ LET msg == Head(inbox) IN
        CASE msg.type = "RECV_ERROR" ->
               /\ StartReturns("ReceiveError.Unexpected")
               /\ UNCHANGED <<startup_src, skipped, replies>>
          [] msg.type = "ENGINE_ACTIVATED" /\ ~msg.valid ->
               /\ StartReturns("EncodingError")
               /\ UNCHANGED <<startup_src, skipped, replies>>
          [] msg.type = "ENGINE_ACTIVATED" /\ msg.valid /\ ~transport_ok ->
               /\ StartReturns("SendError")
               /\ UNCHANGED <<startup_src, skipped, replies>>
          [] msg.type = "ENGINE_ACTIVATED" /\ msg.valid /\ transport_ok ->
               /\ replies' = Log(replies, [type |-> "CONSENSUS_NOTIFY_ACK",
                                           corr |-> msg.corr])
               /\ startup_src' = "activation"
               /\ main_pc' = "spawn"
               /\ UNCHANGED <<start_result, skipped>>
          [] OTHER ->
               /\ skipped' = Log(skipped, msg)
               /\ UNCHANGED <<main_pc, start_result, startup_src, replies>>
    /\ UNCHANGED <<joined, regVars, envVars, loopVars, chanVars, stopVars>>

\* wait_until_active finds the receiver empty and disconnected (line 275).
WaitDisconnected ==
    /\ main_pc = "wait_active"
    /\ inbox = <<>>
    /\ conn = "closed"
    /\ StartReturns("ReceiveError.Disconnected")
    /\ UNCHANGED <<startup_src, joined, inbox, skipped, replies>>
    /\ UNCHANGED <<regVars, envVars, loopVars, chanVars, stopVars>>

\* ------------------------------------------- spawn, engine logic and join

\* Mutant: the loop thread starts with an empty stop channel, the signals
\* sent before it are gone.
Spawn_DrainStop ==
    /\ main_pc = "spawn"
    /\ main_pc' = "engine"
    /\ loop_pc' = "recv"
    /\ stop_pending' = 0
    /\ UNCHANGED <<start_result, startup_src, joined, inbox, skipped, replies,
                   loop_result, cur, received, stop_calls, stop_observed>>
    /\ UNCHANGED <<regVars, envVars, chanVars>>

\* thread::spawn of driver_loop, then Engine::start is entered (lines 93-109).
Spawn ==
    /\ main_pc = "spawn"
    /\ main_pc' = "engine"
    /\ loop_pc' = "recv"
    /\ UNCHANGED <<start_result, startup_src, joined, inbox, skipped, replies,
                   loop_result, cur, received>>
    /\ UNCHANGED <<regVars, envVars, chanVars, stopVars>>

\* Engine logic takes the next Update from update_receiver.
EngineRecv ==
    /\ main_pc = "engine"
    /\ updates # <<>>
    /\ updates' = Tail(updates)
    /\ UNCHANGED <<update_rx_open, emitted, inbox, skipped, replies>>
    /\ UNCHANGED <<mainVars, regVars, envVars, loopVars, stopVars>>

\* Mutant: start returns the error of whichever side failed first.
EngineReturn_FirstError(res) ==
    /\ main_pc = "engine"
    /\ update_rx_open' = FALSE
    /\ updates' = <<>>
    /\ IF res = "Ok"
       THEN main_pc' = "join" /\ UNCHANGED start_result
       ELSE IF loop_pc = "done" /\ loop_result # "Ok"
            THEN StartReturns(loop_result)
            ELSE StartReturns(res)
    /\ UNCHANGED <<startup_src, joined, emitted, inbox, skipped, replies>>
    /\ UNCHANGED <<regVars, envVars, loopVars, stopVars>>

\* Engine::start returns res, dropping update_receiver; on an error the `?`
\* of line 109 returns it from start at once, without the join.
EngineReturn(res) ==
    /\ main_pc = "engine"
    /\ update_rx_open' = FALSE
    /\ updates' = <<>>
    /\ IF res = "Ok"
       THEN main_pc' = "join" /\ UNCHANGED start_result
       ELSE StartReturns(res)
    /\ UNCHANGED <<startup_src, joined, emitted, inbox, skipped, replies>>
    /\ UNCHANGED <<regVars, envVars, loopVars, stopVars>>

\* Mutant: start does not wait for the loop thread.
Join_NoWait ==
    /\ main_pc = "join"
    /\ joined' = TRUE
    /\ StartReturns(IF loop_pc = "done" THEN loop_result ELSE "Ok")
    /\ UNCHANGED <<startup_src, inbox, skipped, replies>>
    /\ UNCHANGED <<regVars, envVars, loopVars, chanVars, stopVars>>

\* driver_thread.join() returns once driver_loop has returned; start returns
\* the loop's result (line 111).
Join ==
    /\ main_pc = "join"
    /\ loop_pc = "done"
    /\ joined' = TRUE
    /\ StartReturns(loop_result)
    /\ UNCHANGED <<startup_src, inbox, skipped, replies>>
    /\ UNCHANGED <<regVars, envVars, loopVars, chanVars, stopVars>>

\* ----------------------------------------------------------- driver_loop

\* driver_loop returns res; the loop thread ends.
LoopReturns(res) ==
    /\ loop_pc' = "done"
    /\ loop_result' = res

\* The Update handle_update sends for msg, tagged with the correlation id of
\* the message it translates; the Shutdown of a stop signal has src 0.
Translate(msg) == [upd |-> UpdateOf(msg.type), src |-> msg.corr]
StopShutdown == [upd |-> "Shutdown", src |-> 0]

\* Mutant: a failed send on the event channel is ignored and the handler
\* goes on to its acknowledgment.
SendUpdate_IgnoreFailure(u, next_pc) ==
    /\ IF update_rx_open
       THEN /\ updates' = Append(updates, u)
            /\ emitted' = Log(emitted, u)
       ELSE UNCHANGED <<updates, emitted>>
    /\ loop_pc' = next_pc
    /\ UNCHANGED loop_result

\* update_sender.send(u)? on the event channel: queued, or a SendError that
\* ends the loop when the engine has dropped update_receiver.
SendUpdate(u, next_pc) ==
    IF update_rx_open
    THEN /\ updates' = Append(updates, u)
         /\ emitted' = Log(emitted, u)
         /\ loop_pc' = next_pc
         /\ UNCHANGED loop_result
    ELSE /\ LoopReturns("SendError")
         /\ UNCHANGED <<updates, emitted>>

\* Mutant: the loop breaks with Ok on a stop signal even when the send of
\* Shutdown fails.
StopCheck_IgnoreSendError ==
    IF stop_pending > 0
    THEN /\ stop_pending' = stop_pending - 1
         /\ stop_observed' = TRUE
         /\ IF update_rx_open
            THEN /\ updates' = Append(updates, StopShutdown)
                 /\ emitted' = Log(emitted, StopShutdown)
            ELSE UNCHANGED <<updates, emitted>>
         /\ LoopReturns("Ok")
         /\ UNCHANGED update_rx_open
    ELSE /\ loop_pc' = "recv"
         /\ UNCHANGED <<loop_result, chanVars, stop_pending, stop_observed>>

\* Mutant: the loop breaks on a stop signal without sending Shutdown.
StopCheck_NoShutdown ==
    IF stop_pending > 0
    THEN /\ stop_pending' = stop_pending - 1
         /\ stop_observed' = TRUE
         /\ LoopReturns("Ok")
         /\ UNCHANGED chanVars
    ELSE /\ loop_pc' = "recv"
         /\ UNCHANGED <<loop_result, chanVars, stop_pending, stop_observed>>

\* Mutant: the loop sends Shutdown for a stop signal and keeps running.
StopCheck_NoBreak ==
    /\ loop_pc' = "recv"
    /\ UNCHANGED <<loop_result, update_rx_open>>
    /\ IF stop_pending > 0
       THEN /\ stop_pending' = stop_pending - 1
            /\ stop_observed' = TRUE
            /\ updates' = Append(updates, StopShutdown)
            /\ emitted' = Log(emitted, StopShutdown)
       ELSE UNCHANGED <<updates, emitted, stop_pending, stop_observed>>

\* stop_receiver.try_recv() and what follows it (lines 138-141, 159-162): a
\* queued stop signal is consumed, Shutdown is sent and the loop breaks with
\* Ok; with none queued the loop goes on.
StopCheck ==
    IF stop_pending > 0
    THEN /\ stop_pending' = stop_pending - 1
         /\ stop_observed' = TRUE
         /\ IF update_rx_open
            THEN /\ updates' = Append(updates, StopShutdown)
                 /\ emitted' = Log(emitted, StopShutdown)
                 /\ LoopReturns("Ok")
            ELSE /\ LoopReturns("SendError")
                 /\ UNCHANGED <<updates, emitted>>
         /\ UNCHANGED update_rx_open
    ELSE /\ loop_pc' = "recv"
         /\ UNCHANGED <<loop_result, chanVars, stop_pending, stop_observed>>

\* Mutant: a receive that times out does not look at the stop channel.
LoopTimeout_NoStopCheck ==
    /\ loop_pc = "recv"
    /\ inbox = <<>>
    /\ conn = "open"
    /\ UNCHANGED vars

\* recv_timeout times out on an empty receiver (line 137).
LoopTimeout ==
    /\ loop_pc = "recv"
    /\ inbox = <<>>
    /\ conn = "open"
    /\ StopCheck
    /\ UNCHANGED <<cur, received, stop_calls, inbox, skipped, replies>>
    /\ UNCHANGED <<mainVars, regVars, envVars>>

\* Mutant: a disconnected receiver is treated like a receive that timed out.
LoopDisconnected_AsTimeout ==
    /\ loop_pc = "recv"
    /\ inbox = <<>>
    /\ conn = "closed"
    /\ StopCheck
    /\ UNCHANGED <<cur, received, stop_calls, inbox, skipped, replies>>
    /\ UNCHANGED <<mainVars, regVars, envVars>>

\* Mutant: on a disconnected receiver the loop tells the engine to shut down
\* before it returns the error.
LoopDisconnected_SendsShutdown ==
    /\ loop_pc = "recv"
    /\ inbox = <<>>
    /\ conn = "closed"
    /\ LoopReturns("ReceiveError.Disconnected")
    /\ IF update_rx_open
       THEN /\ updates' = Append(updates, StopShutdown)
            /\ emitted' = Log(emitted, StopShutdown)
       ELSE UNCHANGED <<updates, emitted>>
    /\ UNCHANGED <<cur, received, inbox, skipped, replies, update_rx_open>>
    /\ UNCHANGED <<mainVars, regVars, envVars, stopVars>>

\* recv_timeout finds the receiver empty and disconnected (line 143).
LoopDisconnected ==
    /\ loop_pc = "recv"
    /\ inbox = <<>>
    /\ conn = "closed"
    /\ LoopReturns("ReceiveError.Disconnected")
    /\ UNCHANGED <<cur, received, inbox, skipped, replies>>
    /\ UNCHANGED <<mainVars, regVars, envVars, chanVars, stopVars>>

\* Mutant: the loop takes the newest item of the receiver, not the oldest.
LoopRecv_Newest ==
    /\ loop_pc = "recv"
    /\ inbox # <<>>
    /\ inbox' = SubSeq(inbox, 1, Len(inbox) - 1)
    /\ LET msg == inbox[Len(inbox)] IN
        IF msg.type = "RECV_ERROR"
        THEN /\ LoopReturns("ReceiveError.Unexpected")
             /\ UNCHANGED <<cur, received>>
        ELSE /\ cur' = msg
             /\ received' = Log(received, msg)
             /\ loop_pc' = IF msg.type = "PING_REQUEST" THEN "ping"
                           ELSE "handle"
             /\ UNCHANGED loop_result
    /\ UNCHANGED <<skipped, replies>>
    /\ UNCHANGED <<mainVars, regVars, envVars, chanVars, stopVars>>

\* recv_timeout yields the next item (lines 146-155): a receive error ends
\* the loop, a PING_REQUEST goes to send_ping_reply, any other message to
\* handle_update.
LoopRecv ==
    /\ loop_pc = "recv"
    /\ inbox # <<>>
    /\ inbox' = Tail(inbox)
    /\ LET msg == Head(inbox) IN
        IF msg.type = "RECV_ERROR"
        THEN /\ LoopReturns("ReceiveError.Unexpected")
             /\ UNCHANGED <<cur, received>>
        ELSE /\ cur' = msg
             /\ received' = Log(received, msg)
             /\ loop_pc' = IF msg.type = "PING_REQUEST" THEN "ping"
                           ELSE "handle"
             /\ UNCHANGED loop_result
    /\ UNCHANGED <<skipped, replies>>
    /\ UNCHANGED <<mainVars, regVars, envVars, chanVars, stopVars>>

\* Mutant: after the ping reply the loop goes to the stop check.
LoopPing_ThenCheck ==
    /\ loop_pc = "ping"
    /\ IF transport_ok
       THEN /\ replies' = Log(replies, [type |-> "PING_RESPONSE",
                                        corr |-> cur.corr])
            /\ loop_pc' = "check"
            /\ UNCHANGED loop_result
       ELSE /\ LoopReturns("SendError")
            /\ UNCHANGED replies
    /\ UNCHANGED <<cur, received, inbox, skipped>>
    /\ UNCHANGED <<mainVars, regVars, envVars, chanVars, stopVars>>

\* send_ping_reply (lines 384-395), then the next iteration without a look
\* at the stop channel.
LoopPing ==
    /\ loop_pc = "ping"
    /\ IF transport_ok
       THEN /\ replies' = Log(replies, [type |-> "PING_RESPONSE",
                                        corr |-> cur.corr])
            /\ loop_pc' = "recv"
            /\ UNCHANGED loop_result
       ELSE /\ LoopReturns("SendError")
            /\ UNCHANGED replies
    /\ UNCHANGED <<cur, received, inbox, skipped>>
    /\ UNCHANGED <<mainVars, regVars, envVars, chanVars, stopVars>>

\* Mutant: handle_update acknowledges a message of an unexpected type.
LoopHandle_AckUnexpected ==
    /\ loop_pc = "handle"
    /\ CASE cur.type \notin TranslatableTypes ->
              /\ loop_pc' = "ack"
              /\ UNCHANGED <<loop_result, chanVars>>
         [] cur.type \in NotifyTypes /\ ~cur.valid ->
              /\ LoopReturns("EncodingError")
              /\ UNCHANGED chanVars
         [] OTHER ->
              /\ SendUpdate(Translate(cur), "ack")
              /\ UNCHANGED update_rx_open
    /\ UNCHANGED <<cur, received, inbox, skipped, replies>>
    /\ UNCHANGED <<mainVars, regVars, envVars, stopVars>>

\* Mutant: handle_update skips a notification whose payload does not parse.
LoopHandle_SkipMalformed ==
    /\ loop_pc = "handle"
    /\ CASE cur.type \notin TranslatableTypes ->
              /\ loop_pc' = "check"
              /\ UNCHANGED <<loop_result, chanVars>>
         [] cur.type \in NotifyTypes /\ ~cur.valid ->
              /\ loop_pc' = "check"
              /\ UNCHANGED <<loop_result, chanVars>>
         [] OTHER ->
              /\ SendUpdate(Translate(cur), "ack")
              /\ UNCHANGED update_rx_open
    /\ UNCHANGED <<cur, received, inbox, skipped, replies>>
    /\ UNCHANGED <<mainVars, regVars, envVars, stopVars>>

\* handle_update up to update_sender.send (lines 323-375): an unexpected
\* type returns Ok with nothing sent, a payload that does not parse returns
\* the encoding error, otherwise the Update is sent on the event channel.
LoopHandle ==
    /\ loop_pc = "handle"
    /\ CASE cur.type \notin TranslatableTypes ->
              /\ loop_pc' = "check"
              /\ UNCHANGED <<loop_result, chanVars>>
         [] cur.type \in NotifyTypes /\ ~cur.valid ->
              /\ LoopReturns("EncodingError")
              /\ UNCHANGED chanVars
         [] OTHER ->
              /\ SendUpdate(Translate(cur), "ack")
              /\ UNCHANGED update_rx_open
    /\ UNCHANGED <<cur, received, inbox, skipped, replies>>
    /\ UNCHANGED <<mainVars, regVars, envVars, stopVars>>

\* The acknowledgment of handle_update (lines 376-381).
LoopAck ==
    /\ loop_pc = "ack"
    /\ IF transport_ok
       THEN /\ replies' = Log(replies, [type |-> "CONSENSUS_NOTIFY_ACK",
                                        corr |-> cur.corr])
            /\ loop_pc' = "check"
            /\ UNCHANGED loop_result
       ELSE /\ LoopReturns("SendError")
            /\ UNCHANGED replies
    /\ UNCHANGED <<cur, received, inbox, skipped>>
    /\ UNCHANGED <<mainVars, regVars, envVars, chanVars, stopVars>>

\* Mutant: after an engine-deactivated notification the loop breaks with Ok.
LoopCheck_BreakOnDeactivated ==
    /\ loop_pc = "check"
    /\ IF cur.type = "ENGINE_DEACTIVATED"
       THEN /\ LoopReturns("Ok")
            /\ UNCHANGED <<chanVars, stop_pending, stop_observed>>
       ELSE StopCheck
    /\ UNCHANGED <<cur, received, stop_calls, inbox, skipped, replies>>
    /\ UNCHANGED <<mainVars, regVars, envVars>>

\* The stop check after handle_update returned Ok (lines 159-162).
LoopCheck ==
    /\ loop_pc = "check"
    /\ StopCheck
    /\ UNCHANGED <<cur, received, stop_calls, inbox, skipped, replies>>
    /\ UNCHANGED <<mainVars, regVars, envVars>>

LoopStep ==
    \/ LoopTimeout
    \/ LoopDisconnected
    \/ LoopRecv
    \/ LoopPing
    \/ LoopHandle
    \/ LoopAck
    \/ LoopCheck

\* ----------------------------------------------------------- Stop::stop

\* Mutant: the result of send is unwrapped, so a call made once the receiver
\* is gone panics instead of returning.
StopCall_Unwrap ==
    /\ stop_calls < MaxStops
    /\ StopReceiverAlive
    /\ stop_calls' = stop_calls + 1
    /\ stop_pending' = stop_pending + 1
    /\ UNCHANGED <<stop_observed, inbox, skipped, replies>>
    /\ UNCHANGED <<mainVars, regVars, envVars, loopVars, chanVars>>

\* Stop::stop (lines 122-126): the signal is queued while the receiver
\* lives; afterwards send fails and the call only logs.
StopCall ==
    /\ stop_calls < MaxStops
    /\ stop_calls' = stop_calls + 1
    /\ stop_pending' = IF StopReceiverAlive THEN stop_pending + 1
                       ELSE stop_pending
    /\ UNCHANGED <<stop_observed, inbox, skipped, replies>>
    /\ UNCHANGED <<mainVars, regVars, envVars, loopVars, chanVars>>

\* ------------------------------------------------ validator and transport

\* The receiver is owned by start and then by the loop thread.
ReceiverAlive ==
    \/ main_pc \in {"reg_send", "reg_wait", "registered", "wait_active",
                    "spawn"}
    \/ loop_pc \notin {"unspawned", "done"}

\* What the receiver yields in a run of the whole driver: two of the
\* notifications, the other message types the driver tells apart, payloads
\* that do not parse, and a transport receive error.
Inbound ==
    {[type |-> t, valid |-> TRUE] :
        t \in {"PEER_CONNECTED", "BLOCK_COMMIT", "ENGINE_DEACTIVATED",
               "PING_REQUEST", "ENGINE_ACTIVATED"}}
    \cup {[type |-> "PEER_CONNECTED", valid |-> FALSE],
          [type |-> "ENGINE_ACTIVATED", valid |-> FALSE],
          [type |-> "RECV_ERROR", valid |-> TRUE]}

\* What the receiver yields where failures are set aside: a notification,
\* the deactivation and a type driver_loop does not expect; the liveness
\* probes come from PingFlood.
LiveInbound ==
    {[type |-> t, valid |-> TRUE] :
        t \in {"PEER_CONNECTED", "ENGINE_DEACTIVATED", "ENGINE_ACTIVATED"}}

\* The transport puts an item of kinds, sent by the validator, into the
\* receiver; the validator numbers its messages, which gives each its
\* correlation id.
ValidatorSend(kinds) ==
    /\ ReceiverAlive
    /\ conn = "open"
    /\ vseq < MaxMsgs
    /\ Len(inbox) < MaxQueue
    /\ \E m \in kinds :
        inbox' = Append(inbox, [type |-> m.type, corr |-> vseq + 1,
                                valid |-> m.valid])
    /\ vseq' = vseq + 1
    /\ late_msg' = (late_msg \/ stop_calls > 0)
    /\ UNCHANGED <<conn, transport_ok, skipped, replies>>
    /\ UNCHANGED <<mainVars, regVars, loopVars, chanVars, stopVars>>

\* The validator keeps probing: one more PING_REQUEST, not counted in vseq
\* and with an id above those of the counted messages.
PingFlood ==
    /\ loop_pc \notin {"unspawned", "done"}
    /\ conn = "open"
    /\ Len(inbox) < MaxQueue
    /\ inbox' = Append(inbox, [type |-> "PING_REQUEST", corr |-> MaxMsgs + 1,
                               valid |-> TRUE])
    /\ UNCHANGED <<skipped, replies>>
    /\ UNCHANGED <<mainVars, regVars, envVars, loopVars, chanVars, stopVars>>

\* The sending side of the receiver goes away.
Disconnect ==
    /\ ReceiverAlive
    /\ conn = "open"
    /\ conn' = "closed"
    /\ UNCHANGED <<vseq, transport_ok, late_msg, inbox, skipped, replies>>
    /\ UNCHANGED <<mainVars, regVars, loopVars, chanVars, stopVars>>

\* The transport's send path breaks: send and reply fail from now on.
TransportFail ==
    /\ main_pc # "new"
    /\ ReceiverAlive
    /\ transport_ok
    /\ transport_ok' = FALSE
    /\ UNCHANGED <<vseq, conn, late_msg, inbox, skipped, replies>>
    /\ UNCHANGED <<mainVars, regVars, loopVars, chanVars, stopVars>>

\* ------------------------------------------------------- specifications

\* The errors Engine::start can return, as one tag.
EngineResults == {"Ok", "EngineError"}

\* ZmqDriver::start with its loop thread, the engine and the environment.
Next ==
    \/ Start
    \/ RegisterSend
    \/ RegisterReply(MaxNotReadyStart)
    \/ Registered
    \/ WaitRecv
    \/ WaitDisconnected
    \/ Spawn
    \/ EngineRecv
    \/ \E res \in EngineResults : EngineReturn(res)
    \/ Join
    \/ LoopStep
    \/ StopCall
    \/ ValidatorSend(Inbound)
    \/ Disconnect
    \/ TransportFail

Spec == Init /\ [][Next]_vars

\* register on its own, with as many NOT_READY responses as MaxNotReady.
RegNext ==
    \/ Start
    \/ RegisterSend
    \/ RegisterReply(MaxNotReady)
    \/ TransportFail

RegSpec == Init /\ [][RegNext]_vars

\* The driver while the engine keeps the event receiver and the transport
\* works, under a validator that may probe without end; the loop thread is
\* scheduled fairly.
LiveNext ==
    \/ Start
    \/ RegisterSend
    \/ RegisterReply(MaxNotReadyStart)
    \/ Registered
    \/ WaitRecv
    \/ Spawn
    \/ EngineRecv
    \/ LoopTimeout
    \/ LoopRecv
    \/ LoopPing
    \/ LoopHandle
    \/ LoopAck
    \/ LoopCheck
    \/ StopCall
    \/ ValidatorSend(LiveInbound)
    \/ PingFlood

LiveSpec == Init /\ [][LiveNext]_vars /\ WF_vars(LoopStep)

\* What the receiver yields when the validator sends every notification
\* handle_update decodes, after the activation.
NotifyInbound ==
    {[type |-> t, valid |-> TRUE] : t \in NotifyTypes \cup {"ENGINE_ACTIVATED"}}

\* The driver dispatching notifications of every type, the transport's send
\* path failing or not.
NotifyNext ==
    \/ Start
    \/ RegisterSend
    \/ RegisterReply(MaxNotReadyStart)
    \/ Registered
    \/ WaitRecv
    \/ Spawn
    \/ EngineRecv
    \/ LoopRecv
    \/ LoopHandle
    \/ LoopAck
    \/ LoopCheck
    \/ ValidatorSend(NotifyInbound)
    \/ TransportFail

NotifySpec == Init /\ [][NotifyNext]_vars

\* Stop::stop called before the loop thread exists: before start, during
\* register or during wait_until_active.
EarlyStop ==
    /\ loop_pc = "unspawned"
    /\ StopCall

\* The driver when every call of Stop::stop comes before the loop thread is
\* spawned; the engine returns when it chooses.
EarlyStopNext ==
    \/ Start
    \/ RegisterSend
    \/ RegisterReply(MaxNotReadyStart)
    \/ Registered
    \/ WaitRecv
    \/ Spawn
    \/ EngineRecv
    \/ \E res \in EngineResults : EngineReturn(res)
    \/ Join
    \/ LoopTimeout
    \/ LoopRecv
    \/ LoopPing
    \/ LoopHandle
    \/ LoopAck
    \/ LoopCheck
    \/ EarlyStop
    \/ ValidatorSend(Inbound)

EarlyStopSpec == Init /\ [][EarlyStopNext]_vars

\* ------------------------------------------------- views of the histories

\* s is an initial part of t.
IsPrefix(s, t) ==
    /\ Len(s) <= Len(t)
    /\ \A i \in 1..Len(s) : s[i] = t[i]

\* The correlation ids of a sequence of messages or replies.
Corrs(s) == [i \in 1..Len(s) |-> s[i].corr]

\* handle_update turns msg into an Update: a type it translates, with a
\* payload that parses where there is one to parse.
IsTranslatable(msg) ==
    /\ msg.type \in TranslatableTypes
    /\ msg.type \in NotifyTypes => msg.valid

\* The Updates driver_loop forwarded for inbound messages, and the ids of
\* those messages.
Forwarded == SelectSeq(emitted, LAMBDA u : u.src # 0)
FwdIds == [i \in 1..Len(Forwarded) |-> Forwarded[i].src]

\* The correlation ids driver_loop acknowledged with CONSENSUS_NOTIFY_ACK (the
\* acknowledgment of wait_until_active is for a message the loop never got).
LoopAckIds ==
    Corrs(SelectSeq(replies, LAMBDA r :
        /\ r.type = "CONSENSUS_NOTIFY_ACK"
        /\ \E i \in 1..Len(received) : received[i].corr = r.corr))

\* ------------------------------------------------------------------ C1

\* handle_update is about to queue the Update of cur, and the engine has
\* dropped the event receiver.
QueueFails ==
    /\ loop_pc = "handle"
    /\ IsTranslatable(cur)
    /\ ~update_rx_open

\* C1: the acknowledgments driver_loop has sent are, in order, for messages
\* whose Update is already queued on the event channel; and when queuing the
\* Update fails, the step of the loop sends no reply and ends the loop with
\* a SendError.
C1_AckAfterQueue ==
    /\ [](IsPrefix(LoopAckIds, FwdIds))
    /\ [][(QueueFails /\ loop_pc' # loop_pc) =>
            /\ replies' = replies
            /\ emitted' = emitted
            /\ loop_pc' = "done"
            /\ loop_result' = "SendError"]_vars

\* One notification was forwarded and acknowledged, then the queuing of the
\* next one failed and it was never acknowledged.
C1_Witness ==
    /\ loop_result = "SendError"
    /\ transport_ok
    /\ IsTranslatable(cur)
    /\ \A i \in 1..Len(FwdIds) : FwdIds[i] # cur.corr
    /\ \A i \in 1..Len(LoopAckIds) : LoopAckIds[i] # cur.corr
    /\ Len(LoopAckIds) >= 1

\* ------------------------------------------------------------------ C2

\* C2 as stated: a Shutdown on the event channel is the last Update sent.
C2_ShutdownAlwaysLast ==
    \A i \in 1..Len(emitted) :
        emitted[i].upd = "Shutdown" => i = Len(emitted)

\* C2, amended: the Shutdown sent for a stop signal is the last Update of the
\* run, and the loop has returned once it is sent; a Shutdown translated from
\* an engine-deactivated notification can be followed by further Updates.
C2_StopShutdownLast ==
    \A i \in 1..Len(emitted) :
        emitted[i] = StopShutdown => (i = Len(emitted) /\ loop_pc = "done")

\* A Shutdown from a notification, then the Shutdown of the stop signal.
C2_Witness ==
    /\ Len(emitted) >= 2
    /\ emitted[Len(emitted)] = StopShutdown
    /\ \E i \in 1..(Len(emitted) - 1) : emitted[i].upd = "Shutdown"

\* ------------------------------------------------------------------ C3

\* A stop signal is waiting on the stop channel of the running loop.
StopAwaits == stop_pending > 0 /\ loop_pc \notin {"unspawned", "done"}

\* The loop has sent Shutdown for the stop signal and returned Ok.
StoppedOk ==
    /\ loop_result = "Ok"
    /\ emitted # <<>>
    /\ emitted[Len(emitted)] = StopShutdown

\* What C3 sets aside: the event channel is closed, the transport's send
\* path has failed, or the loop has returned an error (a receive error, a
\* disconnection, a payload that does not parse).
Failure ==
    \/ ~update_rx_open
    \/ ~transport_ok
    \/ (loop_pc = "done" /\ loop_result # "Ok")

\* C3 as stated: with the loop thread scheduled fairly, a stop signal waiting
\* on the running loop leads to the loop returning Ok after Shutdown, for
\* every stream of inbound messages, failures set aside.
C3_StopLeadsToShutdown == StopAwaits ~> (StoppedOk \/ Failure)

\* C3, amended: with the loop thread scheduled fairly, a stop signal waiting
\* on the running loop leads to the loop returning Ok after Shutdown, or to
\* the loop answering one more liveness probe: the stop channel is looked at
\* only after a receive that timed out or a message that is no PING_REQUEST,
\* so the loop terminates once an iteration is of one of these two kinds,
\* failures set aside.
C3_StopOrPing == StopAwaits ~> (StoppedOk \/ Failure \/ loop_pc = "ping")

\* The loop consumed a stop signal that had been waiting while it answered a
\* liveness probe, and returned Ok after Shutdown.
C3_Witness ==
    /\ StoppedOk
    /\ stop_observed
    /\ \E i \in 1..Len(replies) : replies[i].type = "PING_RESPONSE"

\* ------------------------------------------------------------------ C4

\* The Updates handle_update builds for the translatable messages of s.
TranslateAll(s) ==
    LET t == SelectSeq(s, IsTranslatable)
    IN [i \in 1..Len(t) |-> Translate(t[i])]

\* Every item delivered to the loop is a translatable notification, and none
\* was delivered after a call of Stop::stop.
NotificationsThenStop ==
    /\ ~late_msg
    /\ \A i \in 1..Len(received) : IsTranslatable(received[i])
    /\ \A i \in 1..Len(inbox) : IsTranslatable(inbox[i])

\* C4 as stated: when N translatable notifications were delivered to the
\* receiver before the stop signal and the loop has returned Ok, the event
\* channel got the N translated Updates and then one Shutdown.
C4_AllThenShutdown ==
    (loop_result = "Ok" /\ NotificationsThenStop) =>
        emitted = TranslateAll(received \o inbox) \o <<StopShutdown>>

\* C4, amended: when the loop has returned Ok, the event channel got the
\* translated Updates of the notifications the loop took from the receiver
\* before it saw the stop signal, in receipt order, then exactly one Shutdown
\* for the stop signal and nothing after it; notifications still waiting in
\* the receiver at that moment are not translated.
C4_HandledThenShutdown ==
    loop_result = "Ok" =>
        emitted = TranslateAll(received) \o <<StopShutdown>>

\* The loop returned Ok with one notification translated and another one,
\* delivered before the stop signal, left in the receiver.
C4_Witness ==
    /\ loop_result = "Ok"
    /\ NotificationsThenStop
    /\ Len(emitted) = 2
    /\ inbox # <<>>

\* ------------------------------------------------------------------ C5

\* Messages the loop took from the receiver and has finished with: answered
\* (acknowledgment or ping response) or skipped as an unexpected type.
Finished ==
    Len(SelectSeq(replies, LAMBDA r :
            \E i \in 1..Len(received) : received[i].corr = r.corr))
    + Len(SelectSeq(received, LAMBDA m :
            m.type \notin TranslatableTypes \cup {"PING_REQUEST"}))

\* C5: the Updates forwarded on the event channel are, in order, those of the
\* translatable messages in the order the loop took them from the receiver,
\* which is the order of their arrival; only the message taken last can be
\* unfinished.
C5_ReceiveOrder ==
    /\ IsPrefix(Forwarded, TranslateAll(received))
    /\ Len(TranslateAll(received)) <= Len(Forwarded) + 1
    /\ \A i, j \in 1..Len(received) :
        i < j => received[i].corr < received[j].corr
    /\ Len(received) <= Finished + 1
    /\ Len(received) > Finished => cur = received[Len(received)]

\* Two notifications were translated, one after the other.
C5_Witness ==
    /\ Len(Forwarded) >= 2
    /\ Forwarded[1].src < Forwarded[2].src

\* ------------------------------------------------------------------ C6

\* The ids of the PING_REQUESTs the loop took and of its PING_RESPONSEs.
PingIds ==
    Corrs(SelectSeq(received, LAMBDA m : m.type = "PING_REQUEST"))
PingReplyIds ==
    Corrs(SelectSeq(replies, LAMBDA r : r.type = "PING_RESPONSE"))

\* C6: the PING_RESPONSEs sent are one per PING_REQUEST taken, with its
\* correlation id, in order, the ping in hand excepted; and the step that
\* handles a PING_REQUEST sends exactly that one reply (or ends the loop with
\* a SendError when the transport refuses it), puts no Update on the event
\* channel, leaves the stop channel as it is and goes back to receiving.
C6_PingReply ==
    /\ [](/\ IsPrefix(PingReplyIds, PingIds)
          /\ Len(PingIds) <= Len(PingReplyIds) + 1
          /\ loop_pc \in {"recv", "handle", "ack", "check"} =>
                PingReplyIds = PingIds)
    /\ [][(loop_pc = "ping" /\ loop_pc' # "ping") =>
            /\ emitted' = emitted
            /\ updates' = updates
            /\ stop_pending' = stop_pending
            /\ stop_observed' = stop_observed
            /\ IF transport_ok
               THEN /\ replies' = Append(replies, [type |-> "PING_RESPONSE",
                                                   corr |-> cur.corr])
                    /\ loop_pc' = "recv"
               ELSE /\ replies' = replies
                    /\ loop_pc' = "done"
                    /\ loop_result' = "SendError"]_vars

\* A ping was answered while a stop signal was waiting, and the loop is back
\* at its receive with the signal still waiting.
C6_Witness ==
    /\ loop_pc = "recv"
    /\ stop_pending > 0
    /\ cur.type = "PING_REQUEST"
    /\ Len(PingReplyIds) >= 1
    /\ PingReplyIds[Len(PingReplyIds)] = cur.corr

\* ------------------------------------------------------------------ C7

\* start has returned after spawning the loop thread.
ReturnedAfterSpawn == main_pc = "returned" /\ loop_pc # "unspawned"

\* C7 as stated: whenever start has returned after spawning the loop thread,
\* that thread has finished and was joined.
C7_ReturnImpliesJoined ==
    ReturnedAfterSpawn => (loop_pc = "done" /\ joined)

\* C7, amended: whenever start has returned anything but the engine's error
\* after spawning the loop thread, that thread has finished and was joined and
\* start returned the loop's result; when Engine::start returns an error,
\* start returns it at once without joining, whatever the loop thread does.
C7_JoinedUnlessEngineError ==
    ReturnedAfterSpawn =>
        IF start_result = "EngineError"
        THEN ~joined
        ELSE loop_pc = "done" /\ joined /\ start_result = loop_result

\* start has returned Ok after the join of the finished loop thread.
C7_Witness ==
    /\ ReturnedAfterSpawn
    /\ joined
    /\ loop_pc = "done"
    /\ start_result = "Ok"

\* ------------------------------------------------------------------ C8

\* driver_loop has returned an error.
LoopFailed == loop_pc = "done" /\ loop_result # "Ok"

\* Engine::start returns an error in this step.
EngineFailsNow == main_pc = "engine" /\ main_pc' = "returned"

\* C8 as stated: when Engine::start returns an error, start returns the
\* error that occurred first: the loop's if the loop has already failed, the
\* engine's otherwise.
C8_FirstErrorWins ==
    [][EngineFailsNow =>
        start_result' = (IF LoopFailed THEN loop_result ELSE "EngineError")]_vars

\* C8, amended: when Engine::start returns an error, start returns that
\* error, whether or not the loop failed before it; the loop's error is what
\* start returns only after Engine::start returned Ok and the loop thread was
\* joined.
C8_EngineErrorWins ==
    /\ [][EngineFailsNow => start_result' = "EngineError"]_vars
    /\ [](ReturnedAfterSpawn /\ start_result # "EngineError" =>
            joined /\ start_result = loop_result)

\* Both sides failed, and start returned the engine's error.
C8_Witness ==
    /\ LoopFailed
    /\ start_result = "EngineError"

\* ------------------------------------------------------------------ C9

\* Engine::start returned Ok, the loop consumed a stop signal, no transport
\* failure and no disconnection happened, and start has returned.
OrderlyStop ==
    /\ main_pc = "returned"
    /\ joined
    /\ stop_observed
    /\ transport_ok
    /\ conn = "open"

\* C9 as stated: under OrderlyStop start returned Ok.
C9_StopReturnsOk == OrderlyStop => start_result = "Ok"

\* C9, amended: when the loop consumed a stop signal and Engine::start
\* returned Ok, start returns Ok if the loop's Shutdown was queued, that is if
\* the engine still held the event receiver at the loop's stop check; if the
\* engine had returned before (after an earlier Shutdown Update, say) the send
\* of Shutdown fails and start returns that SendError.
C9_OkIffShutdownQueued ==
    (main_pc = "returned" /\ joined /\ stop_observed) =>
        /\ start_result \in {"Ok", "SendError"}
        /\ start_result = "Ok" <=>
            (emitted # <<>> /\ emitted[Len(emitted)] = StopShutdown)

\* An orderly stop: the stop signal was consumed, Shutdown was queued after
\* an Update for a notification, and start returned Ok.
C9_Witness ==
    /\ OrderlyStop
    /\ start_result = "Ok"
    /\ Len(emitted) >= 2

\* ----------------------------------------------------------------- C10

Min(a, b) == IF a < b THEN a ELSE b

\* The NOT_READY responses register has got.
NotReadyCount ==
    Len(SelectSeq(reg_replies, LAMBDA r : r.status = "NOT_READY"))

\* C10: register has slept once per NOT_READY response, the i-th sleep for
\* min(100 * 2^(i-1), 3000) ms, never shorter than the one before; it has
\* sent one request more than it has slept once a request is out, and so
\* k + 1 requests and k sleeps when it returns after k NOT_READY responses
\* and an OK.
C10_Backoff ==
    /\ Len(sleeps) = NotReadyCount
    /\ \A i \in 1..Len(sleeps) :
        sleeps[i] = Min(INITAL_RETRY_DELAY * 2 ^ (i - 1), MAX_RETRY_DELAY)
    /\ \A i \in 1..(Len(sleeps) - 1) : sleeps[i] <= sleeps[i + 1]
    /\ main_pc = "reg_send" => Len(reg_ids) = Len(sleeps)
    /\ main_pc \in {"reg_wait", "registered"} =>
        Len(reg_ids) = Len(sleeps) + 1
    /\ main_pc = "registered" =>
        /\ Len(reg_replies) = NotReadyCount + 1
        /\ reg_replies[Len(reg_replies)].status = "OK"

\* register returned after six NOT_READY responses and an OK: the sixth sleep
\* is the first one the cap shortens.
C10_Witness ==
    /\ main_pc = "registered"
    /\ Len(sleeps) >= 6
    /\ sleeps[6] = MAX_RETRY_DELAY
    /\ Len(reg_ids) = Len(sleeps) + 1

\* ----------------------------------------------------------------- C11

\* The outcome register got for its latest request.
LastRegReply == reg_replies[Len(reg_replies)]

\* The latest outcome is a registration response that parses, with status OK.
GotOk ==
    /\ reg_replies # <<>>
    /\ LastRegReply.type = "CONSENSUS_REGISTER_RESPONSE"
    /\ LastRegReply.valid
    /\ LastRegReply.status = "OK"

\* C11: on a registration response with status OK register returns, with
\* Some when the response carries both a chain head and local peer info and
\* with None when either is missing; it has sent one request per outcome it
\* got, and sends none once it has returned.
C11_SomeIffBoth ==
    /\ [](GotOk =>
            /\ main_pc = "registered"
            /\ reg_ret \in {"Some", "None"}
            /\ reg_ret = "Some" <=>
                (LastRegReply.chain_head /\ LastRegReply.local_peer_info)
            /\ Len(reg_ids) = Len(reg_replies))
    /\ [](reg_ret \in {"Some", "None"} => GotOk)
    /\ [][reg_ret # "none" => reg_ids' = reg_ids]_vars

\* register returned None on an OK response that carries a chain head but no
\* local peer info.
C11_Witness ==
    /\ GotOk
    /\ reg_ret = "None"
    /\ LastRegReply.chain_head
    /\ ~LastRegReply.local_peer_info

\* ----------------------------------------------------------------- C12

\* r is a registration response that parses, with status NOT_READY.
IsNotReady(r) ==
    /\ r.type = "CONSENSUS_REGISTER_RESPONSE"
    /\ r.valid
    /\ r.status = "NOT_READY"

\* r is a message of another type than the registration response, or a
\* registration response whose status is neither OK nor NOT_READY.
IsRejected(r) ==
    \/ r.type \notin {"CONSENSUS_REGISTER_RESPONSE", "TIMEOUT"}
    \/ /\ r.type = "CONSENSUS_REGISTER_RESPONSE"
       /\ r.valid
       /\ r.status \notin {"OK", "NOT_READY"}

\* C12: every outcome register got before its latest one was a NOT_READY
\* response, so it has sent at most one request more than it got NOT_READY
\* responses; and on a reply of another message type, or a response of
\* another status, register has returned the matching ReceiveError, which
\* start returns, without a sleep or a request after that reply.
C12_RetryOnlyOnNotReady ==
    /\ \A i \in 1..(Len(reg_replies) - 1) : IsNotReady(reg_replies[i])
    /\ Len(reg_ids) <= NotReadyCount + 1
    /\ (reg_replies # <<>> /\ IsRejected(LastRegReply)) =>
        /\ main_pc = "returned"
        /\ start_result = reg_ret
        /\ reg_ret = (IF LastRegReply.type = "CONSENSUS_REGISTER_RESPONSE"
                      THEN "ReceiveError.RegistrationFailed"
                      ELSE "ReceiveError.UnexpectedType")
        /\ Len(sleeps) = Len(reg_replies) - 1
        /\ Len(reg_ids) = Len(reg_replies)

\* register failed on a response of another status after one retry.
C12_Witness ==
    /\ reg_ret = "ReceiveError.RegistrationFailed"
    /\ Len(sleeps) >= 1
    /\ Len(reg_ids) = Len(sleeps) + 1

\* ----------------------------------------------------------------- C13

\* C13: the correlation ids of the registration requests register has sent
\* in one handshake differ from one another.
C13_FreshIds ==
    \A i, j \in 1..Len(reg_ids) : i # j => reg_ids[i] # reg_ids[j]

\* ----------------------------------------------------------------- C14

\* recv_timeout of driver_loop is about to report the disconnection: the
\* loop is at its receive, the receiver is empty and its sender is gone.
DisconnectReported ==
    /\ loop_pc = "recv"
    /\ inbox = <<>>
    /\ conn = "closed"

\* C14: when the receiver reports disconnection to driver_loop, the only
\* step the loop can take, stop signal pending or not, is to return the
\* ReceiveError of the disconnection, with no Update sent, no reply sent and
\* the stop channel untouched; the loop returns that error in no other case.
C14_DisconnectEndsLoop ==
    /\ [][(DisconnectReported /\ loopVars' # loopVars) =>
            /\ loop_pc' = "done"
            /\ loop_result' = "ReceiveError.Disconnected"
            /\ emitted' = emitted
            /\ replies' = replies
            /\ stop_pending' = stop_pending]_vars
    /\ [](DisconnectReported =>
            (ENABLED LoopDisconnected) /\ ~(ENABLED LoopTimeout))
    /\ [](loop_result = "ReceiveError.Disconnected" =>
            loop_pc = "done" /\ conn = "closed")

\* The loop returned the error of the disconnection while a stop signal was
\* pending.
C14_Witness ==
    /\ loop_result = "ReceiveError.Disconnected"
    /\ stop_pending > 0
    /\ ~stop_observed

\* ----------------------------------------------------------------- C15

\* The Shutdowns sent on the event channel for a stop signal.
StopShutdowns == SelectSeq(emitted, LAMBDA u : u = StopShutdown)

\* C15: a call of Stop::stop can be made and returns in every state, before
\* start, while the loop runs and after it has returned; a call changes
\* nothing but the stop channel, and not even that once the loop has
\* returned; and however many calls are made the loop consumes at most one
\* signal, after which it has returned, and sends at most one Shutdown for
\* it.
C15_StopAnyTime ==
    /\ [](stop_calls < MaxStops => ENABLED StopCall)
    /\ [][stop_calls' # stop_calls =>
            /\ stop_calls' = stop_calls + 1
            /\ stop_pending' \in {stop_pending, stop_pending + 1}
            /\ loop_pc = "done" => stop_pending' = stop_pending
            /\ UNCHANGED <<stop_observed, inbox, skipped, replies>>
            /\ UNCHANGED <<mainVars, regVars, envVars, loopVars, chanVars>>]_vars
    /\ [](/\ Len(StopShutdowns) <= 1
          /\ stop_observed => loop_pc = "done"
          /\ stop_pending + (IF stop_observed THEN 1 ELSE 0) <= stop_calls)
    /\ [][stop_observed => stop_pending' >= stop_pending]_vars

\* Two calls were made: the loop consumed the signal of one and returned,
\* the other one was made after that and left nothing behind.
C15_Witness ==
    /\ stop_calls >= 2
    /\ stop_observed
    /\ loop_pc = "done"
    /\ stop_pending = 0

\* ----------------------------------------------------------------- C16

\* The Update variant C16 names for each notification type.
NotifyVariants ==
    {<<"PEER_CONNECTED", "PeerConnected">>,
     <<"PEER_DISCONNECTED", "PeerDisconnected">>,
     <<"PEER_MESSAGE", "PeerMessage">>,
     <<"BLOCK_NEW", "BlockNew">>,
     <<"BLOCK_VALID", "BlockValid">>,
     <<"BLOCK_INVALID", "BlockInvalid">>,
     <<"BLOCK_COMMIT", "BlockCommit">>}

\* The Updates sent and the acknowledgments sent for the message of id c.
UpdatesFor(c) == SelectSeq(emitted, LAMBDA u : u.src = c)
AcksFor(c) ==
    SelectSeq(replies, LAMBDA r :
        r.type = "CONSENSUS_NOTIFY_ACK" /\ r.corr = c)

\* handle_update has returned Ok for the i-th message the loop took.
Handled(i) ==
    \/ i < Len(received)
    \/ loop_pc \in {"check", "recv"}
    \/ loop_pc = "done" /\ loop_result = "Ok"

\* C16: for a notification of one of the seven types whose payload parses,
\* handle_update first sends one Update of the matching variant on the event
\* channel, with no reply yet, and then one CONSENSUS_NOTIFY_ACK with the
\* notification's correlation id, with no further Update; once it has
\* returned Ok, exactly one Update and one acknowledgment exist for the
\* notification.
C16_UpdateThenAck ==
    /\ [][(/\ loop_pc = "handle"
           /\ cur.type \in NotifyTypes
           /\ cur.valid
           /\ update_rx_open
           /\ loop_pc' # loop_pc) =>
            /\ \E p \in NotifyVariants :
                /\ p[1] = cur.type
                /\ emitted' = Append(emitted, [upd |-> p[2], src |-> cur.corr])
                /\ updates' = Append(updates, [upd |-> p[2], src |-> cur.corr])
            /\ replies' = replies
            /\ loop_pc' = "ack"]_vars
    /\ [][(/\ loop_pc = "ack"
           /\ transport_ok
           /\ loop_pc' # loop_pc) =>
            /\ replies' = Append(replies, [type |-> "CONSENSUS_NOTIFY_ACK",
                                           corr |-> cur.corr])
            /\ emitted' = emitted
            /\ loop_pc' = "check"]_vars
    /\ [](\A i \in 1..Len(received) :
            (received[i].type \in NotifyTypes /\ Handled(i)) =>
                /\ Len(UpdatesFor(received[i].corr)) = 1
                /\ Len(AcksFor(received[i].corr)) = 1)

\* A block-valid and a block-invalid notification were translated, each to
\* its own variant, and both were acknowledged.
C16_Witness ==
    /\ Len(emitted) = 2
    /\ emitted[1].upd = "BlockValid"
    /\ emitted[2].upd = "BlockInvalid"
    /\ Len(AcksFor(emitted[1].src)) = 1
    /\ Len(AcksFor(emitted[2].src)) = 1
    /\ loop_pc = "recv"

\* ----------------------------------------------------------------- C17

\* start has a StartupState in hand: it is about to spawn the loop, engine
\* logic has been given the state, or start has returned Ok.
HasStartupState ==
    \/ main_pc \in {"spawn", "engine", "join"}
    \/ loop_pc # "unspawned"
    \/ start_result = "Ok"

\* C17: wait_until_active runs exactly when register returned None; once
\* start has a StartupState, and so in every run that returns Ok, the state
\* has one source, the registration response when register returned Some and
\* the activation notification when it returned None; and a state once
\* produced is never replaced.
C17_OneStartupState ==
    /\ [](main_pc = "wait_active" =>
            reg_ret = "None" /\ startup_src = "none")
    /\ [][(main_pc = "registered" /\ main_pc' # main_pc) =>
            (main_pc' = "wait_active" <=> reg_ret = "None")]_vars
    /\ [][(main_pc' = "wait_active" /\ main_pc # "wait_active") =>
            main_pc = "registered"]_vars
    /\ [](HasStartupState =>
            /\ startup_src \in {"registration", "activation"}
            /\ startup_src = "registration" <=> reg_ret = "Some"
            /\ startup_src = "activation" <=> reg_ret = "None")
    /\ [](~HasStartupState => startup_src = "none")
    /\ [][startup_src # "none" => startup_src' = startup_src]_vars

\* start returned Ok with the StartupState of an activation notification.
C17_Witness ==
    /\ start_result = "Ok"
    /\ startup_src = "activation"
    /\ reg_ret = "None"

\* ----------------------------------------------------------------- C18

\* The message in hand is an engine-deactivated notification.
Deactivated == cur.type = "ENGINE_DEACTIVATED"

\* C18: for an engine-deactivated notification the loop sends Shutdown on
\* the event channel, then the acknowledgment with the notification's
\* correlation id, and then, with no stop signal pending, goes back to its
\* receive without returning; at its receive the loop takes the next message
\* whenever one is waiting.
C18_DeactivationKeepsLoop ==
    /\ [][(Deactivated /\ loop_pc = "handle" /\ update_rx_open
           /\ loop_pc' # loop_pc) =>
            /\ emitted' = Append(emitted, [upd |-> "Shutdown",
                                           src |-> cur.corr])
            /\ loop_pc' = "ack"
            /\ loop_result' = "none"]_vars
    /\ [][(Deactivated /\ loop_pc = "ack" /\ transport_ok
           /\ loop_pc' # loop_pc) =>
            /\ replies' = Append(replies, [type |-> "CONSENSUS_NOTIFY_ACK",
                                           corr |-> cur.corr])
            /\ loop_pc' = "check"
            /\ loop_result' = "none"]_vars
    /\ [][(Deactivated /\ loop_pc = "check" /\ stop_pending = 0
           /\ loop_pc' # loop_pc) =>
            /\ loop_pc' = "recv"
            /\ loop_result' = "none"
            /\ emitted' = emitted]_vars
    /\ [](loop_pc = "recv" /\ inbox # <<>> => ENABLED LoopRecv)

\* After the Shutdown of an engine-deactivated notification the loop handled
\* and acknowledged a later notification.
C18_Witness ==
    /\ Len(emitted) >= 2
    /\ emitted[1].upd = "Shutdown"
    /\ emitted[1].src # 0
    /\ emitted[2].upd # "Shutdown"
    /\ Len(AcksFor(emitted[1].src)) = 1
    /\ Len(AcksFor(emitted[2].src)) = 1

\* ----------------------------------------------------------------- C19

\* msg is neither a liveness probe nor of a type handle_update translates.
Unexpected(msg) ==
    msg.type \notin TranslatableTypes \cup {"PING_REQUEST", "none"}

\* C19: the step of the loop that handles a message of an unexpected type
\* sends no Update and no reply, leaves the event channel, the transport and
\* the stop channel as they are, and goes on to the stop check without
\* returning; no Update and no reply ever carries the id of such a message.
C19_UnexpectedSkipped ==
    /\ [][(loop_pc = "handle" /\ Unexpected(cur) /\ loop_pc' # loop_pc) =>
            /\ loop_pc' = "check"
            /\ loop_result' = "none"
            /\ UNCHANGED <<emitted, updates, update_rx_open, replies>>
            /\ UNCHANGED <<stop_pending, stop_observed, transport_ok, conn,
                           inbox>>]_vars
    /\ [](\A i \in 1..Len(received) :
            Unexpected(received[i]) =>
                /\ UpdatesFor(received[i].corr) = <<>>
                /\ \A k \in 1..Len(replies) :
                    replies[k].corr # received[i].corr)

\* The loop forwarded a notification, then skipped an engine-activated
\* message and is back at its receive.
C19_Witness ==
    /\ loop_pc = "recv"
    /\ loop_result = "none"
    /\ cur.type = "ENGINE_ACTIVATED"
    /\ Len(received) = 2
    /\ Len(emitted) = 1

\* ----------------------------------------------------------------- C20

\* wait_until_active takes the item at the head of the receiver in this step.
WaitTakes ==
    /\ main_pc = "wait_active"
    /\ inbox # <<>>
    /\ inbox' = Tail(inbox)

\* msg is an engine-activated notification whose payload parses.
IsActivation(msg) == msg.type = "ENGINE_ACTIVATED" /\ msg.valid

\* C20: while wait_until_active runs no reply has been sent and nothing has
\* reached engine logic; it returns the StartupState on an engine-activated
\* notification, having sent as its only reply the CONSENSUS_NOTIFY_ACK with
\* that notification's correlation id; every other message it takes is
\* dropped with no reply, and no Update or reply ever carries the id of one;
\* a receive error or a disconnected receiver makes it return the matching
\* error with no reply sent.
C20_WaitUntilActive ==
    /\ [](main_pc = "wait_active" =>
            replies = <<>> /\ emitted = <<>> /\ received = <<>>)
    /\ [](main_pc = "spawn" /\ startup_src = "activation" =>
            /\ Len(replies) = 1
            /\ replies[1].type = "CONSENSUS_NOTIFY_ACK"
            /\ emitted = <<>>)
    /\ [][(main_pc = "wait_active" /\ main_pc' = "spawn") =>
            /\ WaitTakes
            /\ IsActivation(Head(inbox))
            /\ replies' = <<[type |-> "CONSENSUS_NOTIFY_ACK",
                             corr |-> Head(inbox).corr]>>
            /\ startup_src' = "activation"]_vars
    /\ [][(WaitTakes /\ Head(inbox).type \notin
                            {"ENGINE_ACTIVATED", "RECV_ERROR"}) =>
            /\ main_pc' = "wait_active"
            /\ skipped' = Append(skipped, Head(inbox))
            /\ UNCHANGED <<replies, emitted, updates, start_result,
                           startup_src>>]_vars
    /\ [](\A i \in 1..Len(skipped) :
            /\ UpdatesFor(skipped[i].corr) = <<>>
            /\ \A k \in 1..Len(replies) : replies[k].corr # skipped[i].corr
            /\ \A k \in 1..Len(received) :
                received[k].corr # skipped[i].corr)
    /\ [][(WaitTakes /\ Head(inbox).type = "RECV_ERROR") =>
            /\ main_pc' = "returned"
            /\ start_result' = "ReceiveError.Unexpected"
            /\ replies' = replies]_vars
    /\ [][(main_pc = "wait_active" /\ inbox = <<>> /\ conn = "closed"
           /\ main_pc' # main_pc) =>
            /\ main_pc' = "returned"
            /\ start_result' = "ReceiveError.Disconnected"
            /\ replies' = replies]_vars
    /\ [](main_pc = "wait_active" /\ inbox = <<>> /\ conn = "closed" =>
            ENABLED WaitDisconnected)

\* wait_until_active dropped a liveness probe, then acknowledged the
\* activation and returned.
C20_Witness ==
    /\ main_pc = "spawn"
    /\ startup_src = "activation"
    /\ Len(skipped) = 1
    /\ skipped[1].type = "PING_REQUEST"
    /\ Len(replies) = 1
    /\ replies[1].corr = 2

\* ----------------------------------------------------------------- C21

\* The message in hand is a notification whose payload does not parse.
Malformed == cur.type \in NotifyTypes /\ ~cur.valid

\* C21: the step of the loop that handles a notification whose payload does
\* not parse ends the loop with the EncodingError, with no Update queued and
\* no reply sent; no Update and no reply carries the id of that message, it
\* is the last message the loop took, and once the loop has returned it
\* takes no message and sends nothing; and the step that fails to send the
\* acknowledgment ends the loop with a SendError.
C21_DecodeErrorEndsLoop ==
    /\ [][(loop_pc = "handle" /\ Malformed /\ loop_pc' # loop_pc) =>
            /\ loop_pc' = "done"
            /\ loop_result' = "EncodingError"
            /\ UNCHANGED <<emitted, updates, replies, received, inbox>>]_vars
    /\ [](loop_result = "EncodingError" =>
            /\ loop_pc = "done"
            /\ Malformed
            /\ cur = received[Len(received)]
            /\ UpdatesFor(cur.corr) = <<>>
            /\ \A k \in 1..Len(replies) : replies[k].corr # cur.corr)
    /\ [][loop_pc = "done" =>
            UNCHANGED <<loopVars, emitted, replies, inbox>>]_vars
    /\ [][(loop_pc = "ack" /\ ~transport_ok /\ loop_pc' # loop_pc) =>
            /\ loop_pc' = "done"
            /\ loop_result' = "SendError"
            /\ UNCHANGED <<emitted, updates, replies, received, inbox>>]_vars

\* The loop returned the EncodingError of the first message it took, with a
\* later message left in the receiver.
C21_Witness ==
    /\ loop_result = "EncodingError"
    /\ Len(received) = 1
    /\ inbox # <<>>
    /\ emitted = <<>>

\* ----------------------------------------------------------------- C22

\* The loop is at a stop check: a receive that times out, or the check after
\* handle_update returned Ok.
AtStopCheck ==
    \/ loop_pc = "check"
    \/ loop_pc = "recv" /\ inbox = <<>> /\ conn = "open"

\* C22 as stated: a stop signal sent before the loop thread exists is
\* queued; register and wait_until_active leave the stop channel alone and
\* nothing is done for the signal before the loop runs; the loop steps that
\* are no stop check leave it alone too; and at its first stop check the loop
\* consumes the signal, sends Shutdown and returns Ok.
C22_ShutdownAtFirstCheck ==
    /\ [][(stop_calls' # stop_calls /\ main_pc # "returned") =>
            stop_pending' = stop_pending + 1]_vars
    /\ [][loop_pc = "unspawned" => stop_pending' >= stop_pending]_vars
    /\ [](loop_pc = "unspawned" => ~stop_observed /\ emitted = <<>>)
    /\ [][(~AtStopCheck /\ loopVars' # loopVars) =>
            stop_pending' = stop_pending /\ stop_observed' = stop_observed]_vars
    /\ [][(AtStopCheck /\ stop_pending > 0 /\ loopVars' # loopVars) =>
            /\ stop_pending' = stop_pending - 1
            /\ stop_observed'
            /\ emitted' = Append(emitted, StopShutdown)
            /\ loop_pc' = "done"
            /\ loop_result' = "Ok"]_vars

\* C22, amended: as stated, but at its first stop check the loop sends
\* Shutdown and returns Ok only if engine logic still holds the event
\* receiver; if Engine::start has returned by then, the signal is consumed
\* all the same, no Shutdown is sent and the loop returns the SendError.
C22_ConsumedAtFirstCheck ==
    /\ [][(stop_calls' # stop_calls /\ main_pc # "returned") =>
            stop_pending' = stop_pending + 1]_vars
    /\ [][loop_pc = "unspawned" => stop_pending' >= stop_pending]_vars
    /\ [](loop_pc = "unspawned" => ~stop_observed /\ emitted = <<>>)
    /\ [][(~AtStopCheck /\ loopVars' # loopVars) =>
            stop_pending' = stop_pending /\ stop_observed' = stop_observed]_vars
    /\ [][(AtStopCheck /\ stop_pending > 0 /\ loopVars' # loopVars) =>
            /\ stop_pending' = stop_pending - 1
            /\ stop_observed'
            /\ loop_pc' = "done"
            /\ IF update_rx_open
               THEN /\ emitted' = Append(emitted, StopShutdown)
                    /\ loop_result' = "Ok"
               ELSE /\ emitted' = emitted
                    /\ loop_result' = "SendError"]_vars

\* A stop signal sent before the loop thread existed stayed queued through
\* wait_until_active; the loop handled one notification and then, at its
\* first stop check, sent Shutdown and returned Ok.
C22_Witness ==
    /\ startup_src = "activation"
    /\ stop_observed
    /\ loop_result = "Ok"
    /\ Len(received) = 1
    /\ emitted = <<Translate(received[1]), StopShutdown>>

\* ----------------------------------------------------------------- C23

\* The loop took an engine-deactivated notification of id c.
TookDeactivation(c) ==
    \E k \in 1..Len(received) :
        /\ received[k].corr = c
        /\ received[k].type = "ENGINE_DEACTIVATED"

\* C23: every Shutdown on the event channel is either the one sent for a
\* stop signal the loop consumed, after which the loop returned Ok, or the
\* translation of an engine-deactivated notification the loop took; and the
\* step in which the loop returns an error sends nothing on the event
\* channel.
C23_ShutdownOnlyOnStopOrDeactivation ==
    /\ [](\A i \in 1..Len(emitted) :
            emitted[i].upd = "Shutdown" =>
                IF emitted[i].src = 0
                THEN stop_observed /\ loop_result = "Ok"
                ELSE TookDeactivation(emitted[i].src))
    /\ [][(loop_pc # "done" /\ loop_pc' = "done" /\ loop_result' # "Ok") =>
            emitted' = emitted /\ updates' = updates]_vars
    /\ [](loop_result \notin {"none", "Ok"} =>
            \A i \in 1..Len(emitted) : emitted[i] # StopShutdown)

\* The loop forwarded a notification and then returned an error while engine
\* logic was still listening; no Shutdown was sent.
C23_Witness ==
    /\ loop_pc = "done"
    /\ loop_result \notin {"none", "Ok"}
    /\ update_rx_open
    /\ emitted # <<>>
    /\ \A i \in 1..Len(emitted) : emitted[i].upd # "Shutdown"

====
